---- MODULE Spec2Model ----
(***************************************************************************)
(* Model of datacube/scripts/dataset.py: the product matcher and the       *)
(* dataset resolver (lineage-aware and lineage-skipping), together with    *)
(* the collaborators they call (document navigation, lineage               *)
(* deduplication, the catalog's bulk lookup).                              *)
(***************************************************************************)
EXTENDS Integers, Sequences, FiniteSets, TLC

VARIABLES
    rules,        \* product_matching_rules: the ordered list of ProductRules
    mdoc,         \* the document handed to the matcher under SpecMatch
    mresult,      \* what the matcher did with mdoc: returned product or BadMatch
    index,        \* the catalog: identity -> CatalogEntry or Absent
    config,       \* fail_on_missing_lineage, verify_lineage, skip_lineage
    main_ds,      \* the root document (a lineage tree) of the last resolve call
    uri,          \* the caller-supplied location of the last resolve call
    outcome,      \* how the last resolve call ended: returned (dataset, err) or raised
    arena,        \* the Dataset objects constructed by the last resolve call
    node_of,      \* tree position -> the Dataset object resolve_ds gave that position
    index_log,    \* the catalog operations the last resolve call made, in order
    match_log,    \* the tree positions the matcher was invoked for, in order
    memo,         \* the dictionary resolve_ds memoizes in, as the last call left it
    calls,        \* the root documents of the resolver's earlier calls, in order
    walk,         \* _get_derived_set in progress: to_process, derived_set, lookups
    cmd,          \* a command in progress: its inputs, position and counts
    dates         \* date_sequence in progress: its arguments, the next start date, the spans yielded

\* the state of the other subsystems: a resolver called repeatedly, the
\* derived-set walker, the commands, date_sequence
others == <<memo, calls, walk, cmd, dates>>

vars == <<rules, mdoc, mresult, index, config, main_ds, uri, outcome,
          arena, node_of, index_log, match_log, memo, calls, walk, cmd, dates>>

----------------------------------------------------------------------------
(* Bounds *)

MaxRules == 2

----------------------------------------------------------------------------
(* Documents: the fields a signature can constrain *)

Absent == "absent"

Keys == {"platform", "product_type"}

FieldValues == {"LS7", "LS8"}

Products == {"p1", "p2"}

NoProduct == "none"

\* the non-lineage, non-identity fields of a metadata document; Absent = key not present
Bodies == [Keys -> FieldValues \cup {Absent}]

\* a signature is a partial document: Absent = the signature does not constrain the key
Signatures == [Keys -> FieldValues \cup {Absent}]

ProductRules == [product : Products, signature : Signatures]

RuleLists(n) == UNION {[1..k -> ProductRules] : k \in 1..n}

----------------------------------------------------------------------------
(* changes.contains: every field of the signature is in the document with   *)
(* an equal value; extra fields of the document are ignored                 *)

contains(doc, signature) ==
    \A k \in Keys : signature[k] # Absent => doc[k] = signature[k]

RECURSIVE MatchedProducts(_, _, _)
\* [rule.product for rule in rules if changes.contains(doc, rule.signature)]
MatchedProducts(rs, doc, i) ==
    IF i > Len(rs) THEN <<>>
    ELSE (IF contains(doc, rs[i].signature) THEN <<rs[i].product>> ELSE <<>>)
         \o MatchedProducts(rs, doc, i + 1)

Returned(p) == [exc |-> "none", product |-> p, kind |-> "match", names |-> <<>>]

BadMatch(kind, names) ==
    [exc |-> "BadMatch", product |-> NoProduct, kind |-> kind, names |-> names]

single_product_matcher(rule, doc) ==
    IF contains(doc, rule.signature)
    THEN Returned(rule.product)
    ELSE BadMatch("mismatch", <<>>)

\* product_matcher that settles an ambiguous match by taking the first matched rule
product_matcher_first_match(rs, doc) ==
    LET matched == MatchedProducts(rs, doc, 1) IN
    IF Len(matched) >= 1 THEN Returned(matched[1])
    ELSE BadMatch(IF Len(rs) = 1 THEN "mismatch" ELSE "no_match", <<>>)

\* product_matcher(rules)(doc)
product_matcher(rs, doc) ==
    IF Len(rs) = 1
    THEN single_product_matcher(rs[1], doc)
    ELSE LET matched == MatchedProducts(rs, doc, 1) IN
         IF Len(matched) = 1 THEN Returned(matched[1])
         ELSE IF Len(matched) = 0 THEN BadMatch("no_match", <<>>)
         ELSE BadMatch("several", matched)

----------------------------------------------------------------------------
(* Identities, lineage trees and the catalog *)

NumIds == 3

Ids == 1..NumIds

\* a document without an id field
NoId == 0

\* sources of a document, in the order the document lists them
ClassifierOrder == <<1, 2>>

Classifiers == {ClassifierOrder[i] : i \in 1..Len(ClassifierOrder)}

\* a nested document tree: position (path of classifiers from the root) -> the
\* identity and body of the document embedded there
Shapes ==
    { {<<>>},
      {<<>>, <<1>>},
      {<<>>, <<1>>, <<2>>},
      {<<>>, <<1>>, <<1, 1>>},
      {<<>>, <<1>>, <<2>>, <<1, 1>>},
      {<<>>, <<1>>, <<2>>, <<1, 1>>, <<2, 1>>} }

\* the bodies used in lineage trees: only the platform field varies
TreeBodies == {b \in Bodies : b["product_type"] = Absent /\ b["platform"] # Absent}

NodeLabels == [id : Ids \cup {NoId}, body : TreeBodies]

Root == <<>>

Children(tree, p) == {c \in Classifiers : Append(p, c) \in DOMAIN tree}

IsPrefix(p, q) == Len(p) < Len(q) /\ SubSeq(q, 1, Len(p)) = p

\* the identities below position p, by relative path
LineageIds(tree, p) ==
    LET below == {q \in DOMAIN tree : IsPrefix(p, q)} IN
    {<<SubSeq(q, Len(p) + 1, Len(q)), tree[q].id>> : q \in below}

RECURSIVE PreOrder(_, _)
RECURSIVE PreOrderSources(_, _, _)
\* the positions of the subtree at p, each parent before its sources
PreOrder(tree, p) == <<p>> \o PreOrderSources(tree, p, 1)

PreOrderSources(tree, p, k) ==
    IF k > Len(ClassifierOrder) THEN <<>>
    ELSE (IF ClassifierOrder[k] \in Children(tree, p)
          THEN PreOrder(tree, Append(p, ClassifierOrder[k])) ELSE <<>>)
         \o PreOrderSources(tree, p, k + 1)

\* the position of the first document carrying identity i, in document order
FirstIndex(tree, i) ==
    LET order == PreOrder(tree, Root) IN
    CHOOSE k \in 1..Len(order) :
        /\ tree[order[k]].id = i
        /\ \A j \in 1..(k - 1) : tree[order[j]].id # i

IdsOf(tree) == {tree[p].id : p \in DOMAIN tree} \ {NoId}

\* Input domain: identities are numbered in the order they first occur
CanonicalIds(tree) ==
    \A i \in IdsOf(tree) :
        i > 1 => /\ (i - 1) \in IdsOf(tree)
                 /\ FirstIndex(tree, i - 1) < FirstIndex(tree, i)

\* Input domain: a repeated identity carries the same lineage wherever it is
\* embedded, and no identity is its own ancestor (lineage is acyclic).
WellFormedTree(tree) ==
    \A p, q \in DOMAIN tree :
        (tree[p].id = tree[q].id /\ tree[p].id # NoId /\ p # q) =>
            /\ ~IsPrefix(p, q)
            /\ LineageIds(tree, p) = LineageIds(tree, q)

Trees ==
    {tree : tree \in {t \in UNION {[sh -> NodeLabels] : sh \in Shapes} :
                         WellFormedTree(t) /\ CanonicalIds(t)}}

NoLineage == [c \in {} |-> NoId]

\* SimpleDocNav.doc: the document at a position, naming its sources
Doc(tree, p) ==
    [id |-> tree[p].id,
     body |-> tree[p].body,
     lineage |-> [c \in Children(tree, p) |-> tree[Append(p, c)].id]]

\* SimpleDocNav.doc_without_lineage_sources
doc_without_lineage_sources(doc) == [doc EXCEPT !.lineage = NoLineage]

\* the (product, platform) pairs catalogued datasets may carry
CatalogRecords == {<<"p2", "LS7">>}

PlatformBody(v) == [k \in Keys |-> IF k = "platform" THEN v ELSE Absent]

\* what the catalog may hold for identity i
CatalogEntries(i) ==
    {[id |-> i, type |-> r[1],
      metadata_doc |-> [id |-> i, body |-> PlatformBody(r[2]), lineage |-> NoLineage]] :
        r \in CatalogRecords}

Catalogs ==
    UNION {{c \in [S -> UNION {CatalogEntries(i) : i \in S}] : \A i \in S : c[i].id = i} :
              S \in SUBSET Ids}

----------------------------------------------------------------------------
(* Collaborators of the resolver *)

\* identities that occur twice in the tree with different bodies
ConflictIds(tree) ==
    {i \in Ids : \E p, q \in DOMAIN tree :
        tree[p].id = i /\ tree[q].id = i /\ tree[p].body # tree[q].body}

\* dedup_lineage: the deduplicated document, or InvalidDocException on a
\* repeated identity with different bodies
dedup_lineage(tree) ==
    IF ConflictIds(tree) # {}
    THEN [exc |-> "InvalidDocException", ids |-> ConflictIds(tree), doc |-> tree]
    ELSE [exc |-> "none", ids |-> {}, doc |-> tree]

\* toolz.valmap(toolz.first, flatten_datasets(main_ds)): identity -> the first
\* document of the tree that carries it
flatten_datasets(tree) ==
    LET order == PreOrder(tree, Root) IN
    [i \in IdsOf(tree) |-> order[FirstIndex(tree, i)]]

\* index.datasets.bulk_get(ids): the catalogued datasets among ids
bulk_get(idx, ids) == {idx[i] : i \in ids \cap DOMAIN idx}

\* get_doc_changes(a, b): the field paths at which two documents differ
get_doc_changes(a, b) ==
    {f \in {"id", "body", "lineage"} : a[f] # b[f]}

check_consistent(a, b) == get_doc_changes(a, b) = {}

\* Dataset(product, doc, uris=uris, sources=sources)
Dataset(product, doc, uris, sources) ==
    [type |-> product, doc |-> doc, uris |-> uris, sources |-> sources, id |-> doc.id]

----------------------------------------------------------------------------
(* dataset_resolver *)

NoDataset == 0

NoErr == [kind |-> "none", why |-> "none", ids |-> {}, names |-> <<>>]

Error(kind, why, ids, names) == [kind |-> kind, why |-> why, ids |-> ids, names |-> names]

\* the BadMatch exception e, as the error value `return None, e`
BadMatchError(m) == Error("BadMatch", m.kind, {}, m.names)

Idle == [status |-> "idle", dataset |-> NoDataset, err |-> NoErr]

\* return dataset, None
ReturnDataset(h) == [status |-> "returned", dataset |-> h, err |-> NoErr]

\* return None, err
ReturnError(e) == [status |-> "returned", dataset |-> NoDataset, err |-> e]

\* an exception that leaves the call
Raise(e) == [status |-> "raised", dataset |-> NoDataset, err |-> e]

NoMatcherExc == Returned(NoProduct)

\* cache.get(k)
CacheGet(cache, k) == IF k \in DOMAIN cache THEN cache[k] ELSE NoDataset

\* cache[k] = v
CachePut(cache, k, v) == [x \in DOMAIN cache \cup {k} |-> IF x = k THEN v ELSE cache[x]]

\* resolve_ds past the cache lookup: the product from the catalog or the matcher,
\* then with_cache(Dataset(product, doc, uris=uris, sources=sources), ds.id, cache)
construct_ds(st, ctx, p) ==
    LET ds == Doc(ctx.tree, p)
        sources == [c \in Children(ctx.tree, p) |-> st.node_of[Append(p, c)]]
        uris == IF ds.id = ctx.main_uuid THEN <<ctx.uri>> ELSE <<>>
        doc == ds
        known == ds.id \in DOMAIN ctx.db_dss
        m == IF known THEN Returned(ctx.db_dss[ds.id].type)
             ELSE product_matcher(ctx.rules, doc.body)
        log == IF known THEN st.match_log ELSE Append(st.match_log, p)
        h == Len(st.arena) + 1
    IN
    IF m.exc # "none"
    THEN [st EXCEPT !.match_log = log, !.exc = m]
    ELSE [cache |-> CachePut(st.cache, ds.id, h),
          arena |-> Append(st.arena, Dataset(m.product, doc, uris, sources)),
          node_of |-> CachePut(st.node_of, p, h),
          match_log |-> log,
          exc |-> st.exc]

\* resolve_ds that never consults the cache
resolve_ds_no_cache(st, ctx, p) == construct_ds(st, ctx, p)

\* resolve_ds(ds, sources, cache) for the document at position p; st carries the
\* cache, the Dataset objects built so far and a BadMatch in flight
resolve_ds(st, ctx, p) ==
    LET cached == CacheGet(st.cache, Doc(ctx.tree, p).id) IN
    IF cached # NoDataset
    THEN [st EXCEPT !.node_of = CachePut(@, p, cached)]
    ELSE construct_ds(st, ctx, p)

RECURSIVE remap_lineage_doc(_, _, _)
RECURSIVE remap_sources(_, _, _, _)
\* remap_lineage_doc.visit: the sources of a document are resolved before it
remap_lineage_doc(st, ctx, p) ==
    LET below == remap_sources(st, ctx, p, 1) IN
    IF below.exc.exc # "none" THEN below ELSE resolve_ds(below, ctx, p)

remap_sources(st, ctx, p, k) ==
    IF k > Len(ClassifierOrder) \/ st.exc.exc # "none" THEN st
    ELSE LET c == ClassifierOrder[k] IN
         remap_sources(IF c \in Children(ctx.tree, p)
                       THEN remap_lineage_doc(st, ctx, Append(p, c)) ELSE st,
                       ctx, p, k + 1)

EmptyCache == [k \in {} |-> NoDataset]

NoNodes == [p \in {} |-> NoDataset]

\* lineage_uuids that keeps the root's identity
lineage_uuids_with_root(all_uuid, main_uuid) == all_uuid

\* set(filter(lambda x: x != main_uuid, all_uuid))
lineage_uuids(all_uuid, main_uuid) == {x \in all_uuid : x # main_uuid}

\* lineage_uuids - set(db_dss)
missing_lineage(lineage, db_dss) == lineage \ DOMAIN db_dss

\* bad_lineage that compares the parsed document with its lineage sources left in
bad_lineage_with_sources(tree, ds_by_uuid, lineage, db_dss) ==
    {uuid \in lineage :
        /\ uuid \in DOMAIN db_dss
        /\ ~check_consistent(Doc(tree, ds_by_uuid[uuid]), db_dss[uuid].metadata_doc)}

\* the uuids appended to bad_lineage
bad_lineage(tree, ds_by_uuid, lineage, db_dss) ==
    {uuid \in lineage :
        /\ uuid \in DOMAIN db_dss
        /\ ~check_consistent(doc_without_lineage_sources(Doc(tree, ds_by_uuid[uuid])),
                             db_dss[uuid].metadata_doc)}

CallResult(o, a, n, il, ml) ==
    [outcome |-> o, arena |-> a, node_of |-> n, index_log |-> il, match_log |-> ml]

\* resolve_no_lineage that builds the dataset from ds.doc
resolve_no_lineage_keep_sources(rs, tree, u) ==
    LET doc == Doc(tree, Root)
        m == product_matcher(rs, doc.body)
    IN
    IF m.exc # "none"
    THEN CallResult(ReturnError(BadMatchError(m)), <<>>, NoNodes, <<>>, <<Root>>)
    ELSE CallResult(ReturnDataset(1),
                    <<Dataset(m.product, doc, <<u>>, NoNodes)>>,
                    CachePut(NoNodes, Root, 1), <<>>, <<Root>>)

\* resolve_no_lineage(ds, uri)
resolve_no_lineage(rs, tree, u) ==
    LET doc == doc_without_lineage_sources(Doc(tree, Root))
        m == product_matcher(rs, doc.body)
    IN
    IF m.exc # "none"
    THEN CallResult(ReturnError(BadMatchError(m)), <<>>, NoNodes, <<>>, <<Root>>)
    ELSE CallResult(ReturnDataset(1),
                    <<Dataset(m.product, doc, <<u>>, NoNodes)>>,
                    CachePut(NoNodes, Root, 1), <<>>, <<Root>>)

\* no except clause: InvalidDocException leaves resolve
on_InvalidDocException_uncaught(dd) == Raise(Error(dd.exc, "conflict", dd.ids, <<>>))

\* except InvalidDocException as e: return None, e
on_InvalidDocException(dd) == ReturnError(Error(dd.exc, "conflict", dd.ids, <<>>))

\* a second bulk lookup for the same identities
index_calls_twice(all_uuid) ==
    <<[op |-> "bulk_get", ids |-> all_uuid], [op |-> "bulk_get", ids |-> all_uuid]>>

\* index.datasets.bulk_get(all_uuid): the catalog operations resolve performs
index_calls(all_uuid) == <<[op |-> "bulk_get", ids |-> all_uuid]>>

\* a dictionary that outlives the call
call_cache_kept(kept) == kept

\* cache={}: the dictionary a resolve call hands to remap_lineage_doc; kept is
\* what earlier calls of the same resolver left behind
call_cache(kept) == EmptyCache

\* how a call ends: its results and the dictionary as the call leaves it
CallEnd(r, c) == [result |-> r, cache |-> c]

\* resolve(main_ds, uri) on a heap that already holds the Dataset objects of
\* earlier calls; bulk_ok = FALSE when the catalog's bulk_get raises
resolve_in(idx, cfg, rs, tree, u, bulk_ok, heap, kept) ==
    LET dd == dedup_lineage(tree) IN
    IF dd.exc # "none"
    THEN CallEnd(CallResult(on_InvalidDocException(dd), heap, NoNodes, <<>>, <<>>), kept)
    ELSE
    LET main == dd.doc
        main_uuid == main[Root].id
        ds_by_uuid == flatten_datasets(main)
        all_uuid == DOMAIN ds_by_uuid
        ops == index_calls(all_uuid)
    IN
    IF ~bulk_ok
    THEN CallEnd(CallResult(Raise(Error("CatalogError", "bulk_get", {}, <<>>)),
                            heap, NoNodes, ops, <<>>), kept)
    ELSE
    LET found == bulk_get(idx, all_uuid)
        db_dss == [i \in {e.id : e \in found} |-> CHOOSE e \in found : e.id = i]
        lineage == lineage_uuids(all_uuid, main_uuid)
        missing == missing_lineage(lineage, db_dss)
        bad == bad_lineage(main, ds_by_uuid, lineage, db_dss)
        ctx == [tree |-> main, main_uuid |-> main_uuid, uri |-> u,
                db_dss |-> db_dss, rules |-> rs]
        st0 == [cache |-> call_cache(kept), arena |-> heap, node_of |-> NoNodes,
                match_log |-> <<>>, exc |-> NoMatcherExc]
        st == remap_lineage_doc(st0, ctx, Root)
    IN
    IF missing # {} /\ cfg.fail_on_missing_lineage
    THEN CallEnd(CallResult(ReturnError(Error("missing_lineage", "missing", missing, <<>>)),
                            heap, NoNodes, ops, <<>>), kept)
    ELSE IF cfg.verify_lineage /\ bad # {}
    THEN CallEnd(CallResult(ReturnError(Error("inconsistent_lineage", "differs", bad, <<>>)),
                            heap, NoNodes, ops, <<>>), kept)
    ELSE IF st.exc.exc # "none"
    THEN CallEnd(CallResult(ReturnError(BadMatchError(st.exc)),
                            st.arena, st.node_of, ops, st.match_log), st.cache)
    ELSE CallEnd(CallResult(ReturnDataset(st.node_of[Root]),
                            st.arena, st.node_of, ops, st.match_log), st.cache)

\* resolve(main_ds, uri) as the first call of a resolver
resolve(idx, cfg, rs, tree, u, bulk_ok) ==
    resolve_in(idx, cfg, rs, tree, u, bulk_ok, <<>>, EmptyCache).result

----------------------------------------------------------------------------
(* The resolver as a state machine: one resolve call per behaviour *)

Uris == {"file:///ds.yaml"}

NoUri == "none"

NoTree == [p \in {} |-> NoId]

\* rule lists under which a tree body matches one, no, or several products
ResolverRules ==
    { <<[product |-> "p1", signature |-> PlatformBody("LS7")]>>,
      <<[product |-> "p1", signature |-> PlatformBody("LS7")],
        [product |-> "p2", signature |-> PlatformBody(Absent)]>> }

\* dataset_resolver's keyword arguments; the lineage flags are read only by resolve
Configs ==
    {c \in [fail_on_missing_lineage : BOOLEAN, verify_lineage : BOOLEAN,
            skip_lineage : BOOLEAN] :
        c.skip_lineage => (~c.fail_on_missing_lineage /\ c.verify_lineage)}

\* no derived-set walk in progress
NoWalk == [status |-> "idle", to_process |-> {}, derived_set |-> {},
           lookups |-> [i \in Ids |-> 0], round |-> 0]

\* no command in progress
NoCmd == [status |-> "idle"]

\* date_sequence not called
NoDates == [status |-> "idle"]

\* the subsystems a specification does not exercise stay idle
OthersIdle ==
    /\ memo = EmptyCache
    /\ calls = <<>>
    /\ walk = NoWalk
    /\ cmd = NoCmd
    /\ dates = NoDates

NoMatch == [exc |-> "idle", product |-> NoProduct, kind |-> "idle", names |-> <<>>]

Init ==
    /\ rules \in ResolverRules
    /\ index \in Catalogs
    /\ config \in Configs
    /\ mdoc = PlatformBody(Absent)
    /\ mresult = NoMatch
    /\ main_ds = NoTree
    /\ uri = NoUri
    /\ outcome = Idle
    /\ arena = <<>>
    /\ node_of = NoNodes
    /\ index_log = <<>>
    /\ match_log = <<>>
    /\ OthersIdle

Finish(tree, u, r) ==
    /\ main_ds' = tree
    /\ uri' = u
    /\ outcome' = r.outcome
    /\ arena' = r.arena
    /\ node_of' = r.node_of
    /\ index_log' = r.index_log
    /\ match_log' = r.match_log
    /\ UNCHANGED <<rules, mdoc, mresult, index, config, others>>

\* ds_resolve(ds, uri) where ds_resolve is resolve
Resolve ==
    /\ outcome.status = "idle"
    /\ ~config.skip_lineage
    /\ \E tree \in Trees, u \in Uris, bulk_ok \in BOOLEAN :
          Finish(tree, u, resolve(index, config, rules, tree, u, bulk_ok))

\* ds_resolve(ds, uri) where ds_resolve is resolve_no_lineage
ResolveNoLineage ==
    /\ outcome.status = "idle"
    /\ config.skip_lineage
    /\ \E tree \in Trees, u \in Uris :
          Finish(tree, u, resolve_no_lineage(rules, tree, u))

Next == Resolve \/ ResolveNoLineage

Spec == Init /\ [][Next]_vars

----------------------------------------------------------------------------
(* The matcher alone, on every document and rule list within the bounds *)

InitMatch ==
    /\ rules \in RuleLists(MaxRules)
    /\ mdoc \in Bodies
    /\ mresult = NoMatch
    /\ index = [i \in {} |-> NoId]
    /\ config = [fail_on_missing_lineage |-> FALSE, verify_lineage |-> TRUE,
                 skip_lineage |-> FALSE]
    /\ main_ds = NoTree
    /\ uri = NoUri
    /\ outcome = Idle
    /\ arena = <<>>
    /\ node_of = NoNodes
    /\ index_log = <<>>
    /\ match_log = <<>>
    /\ OthersIdle

\* match_product(doc)
Match ==
    /\ mresult.exc = "idle"
    /\ mresult' = product_matcher(rules, mdoc)
    /\ UNCHANGED <<rules, mdoc, index, config, main_ds, uri, outcome,
                   arena, node_of, index_log, match_log, others>>

NextMatch == Match

SpecMatch == InitMatch /\ [][NextMatch]_vars

----------------------------------------------------------------------------
(* Properties of the matcher (SpecMatch) *)

\* the rules of the list whose signature the document contains
ContainedRules == {i \in 1..Len(rules) : contains(mdoc, rules[i].signature)}

\* C1: the matcher returns a product iff exactly one rule's signature is
\* contained in the document, and then that rule's product; with no contained
\* signature it raises BadMatch, with two or more it raises BadMatch naming
\* every matched product; for one-element rule lists as for longer ones.
C1_MatcherContract ==
    mresult.exc # "idle" =>
        /\ mresult.exc \in {"none", "BadMatch"}
        /\ (mresult.exc = "none") <=> (Cardinality(ContainedRules) = 1)
        /\ mresult.exc = "none" =>
              \A i \in ContainedRules : mresult.product = rules[i].product
        /\ Cardinality(ContainedRules) >= 2 =>
              \A i \in ContainedRules :
                  \E k \in 1..Len(mresult.names) : mresult.names[k] = rules[i].product

\* an ambiguous document: two rules for different products both match
C1_Witness ==
    /\ mresult.exc = "BadMatch"
    /\ Cardinality(ContainedRules) >= 2
    /\ \E i, j \in ContainedRules : rules[i].product # rules[j].product

----------------------------------------------------------------------------
(* Properties of the resolver (Spec) *)

\* a lineage-aware resolve call has ended
LineageCallDone == outcome.status # "idle" /\ ~config.skip_lineage

\* a lineage-skipping resolve call has ended
NoLineageCallDone == outcome.status # "idle" /\ config.skip_lineage

RootId == main_ds[Root].id

\* the identities of the lineage documents of the tree
NonRootIds == IdsOf(main_ds) \ {RootId}

\* deduplication succeeded and the bulk lookup returned
LookupDone ==
    /\ LineageCallDone
    /\ outcome.status = "returned"
    /\ outcome.err.kind # "InvalidDocException"

\* the number of matcher invocations for documents carrying identity i
MatcherCalls(i) ==
    Cardinality({k \in 1..Len(match_log) : main_ds[match_log[k]].id = i})

\* the number of Dataset objects constructed for identity i
Constructions(i) == Cardinality({h \in 1..Len(arena) : arena[h].id = i})

\* C2: within one lineage-aware resolve call the matcher and the Dataset
\* construction run at most once per distinct identity, and all positions of
\* the tree that carry the same identity hold the same Dataset object.
C2_ResolvedOncePerIdentity ==
    LineageCallDone =>
        /\ \A i \in Ids : MatcherCalls(i) <= 1 /\ Constructions(i) <= 1
        /\ \A p, q \in DOMAIN node_of :
              (main_ds[p].id = main_ds[q].id /\ main_ds[p].id # NoId) =>
                  node_of[p] = node_of[q]
        /\ \A h \in 1..Len(arena) : \A c \in DOMAIN arena[h].sources :
              \A q \in DOMAIN node_of :
                  (main_ds[q].id # NoId /\ main_ds[q].id = arena[arena[h].sources[c]].id)
                      => node_of[q] = arena[h].sources[c]

\* a resolved tree in which two positions carry the same identity, which the
\* catalog does not know
C2_Witness ==
    /\ LineageCallDone
    /\ outcome.dataset # NoDataset
    /\ \E p, q \in DOMAIN node_of :
          /\ p # q
          /\ main_ds[p].id = main_ds[q].id
          /\ main_ds[p].id \in Ids \ DOMAIN index
          /\ Children(main_ds, p) # {}

\* the non-root identities the bulk lookup did not return
AbsentLineage == NonRootIds \ DOMAIN index

\* C3: with fail_on_missing_lineage, resolve returns the missing-lineage error
\* iff some non-root identity is absent from the bulk-lookup result, listing
\* exactly the absent non-root identities (the root's absence never counts);
\* without the flag no missing-lineage error is returned.
C3_MissingLineage ==
    LookupDone =>
        /\ config.fail_on_missing_lineage =>
              ((outcome.err.kind = "missing_lineage") <=> (AbsentLineage # {}))
        /\ outcome.err.kind = "missing_lineage" =>
              /\ outcome.err.ids = AbsentLineage
              /\ outcome.dataset = NoDataset
        /\ ~config.fail_on_missing_lineage => outcome.err.kind # "missing_lineage"

\* two ancestors are missing and reported; the root, absent too, is not
C3_Witness ==
    /\ LookupDone
    /\ outcome.err.kind = "missing_lineage"
    /\ Cardinality(outcome.err.ids) = 2
    /\ RootId \in Ids \ DOMAIN index

\* the catalogued non-root identities whose parsed document, lineage stripped,
\* differs from the catalogued metadata document
InconsistentLineage ==
    {i \in NonRootIds \cap DOMAIN index :
        \E p \in DOMAIN main_ds :
            /\ main_ds[p].id = i
            /\ [id |-> i, body |-> main_ds[p].body, lineage |-> NoLineage]
                   # index[i].metadata_doc}

\* C4: with verify_lineage and no missing-lineage abort, resolve returns the
\* inconsistency error iff some catalogued non-root identity differs from its
\* catalogued document; the one error names every such identity and no dataset
\* is returned; without verify_lineage no such error is returned.
C4_InconsistentLineage ==
    (LookupDone /\ outcome.err.kind # "missing_lineage") =>
        /\ config.verify_lineage =>
              ((outcome.err.kind = "inconsistent_lineage") <=> (InconsistentLineage # {}))
        /\ outcome.err.kind = "inconsistent_lineage" =>
              /\ outcome.err.ids = InconsistentLineage
              /\ outcome.dataset = NoDataset
        /\ ~config.verify_lineage => outcome.err.kind # "inconsistent_lineage"

\* two catalogued ancestors differ from the catalog; a consistent catalogued
\* ancestor that has lineage of its own is not reported
C4_Witness ==
    /\ LookupDone
    /\ outcome.err.kind = "inconsistent_lineage"
    /\ Cardinality(outcome.err.ids) = 2
    /\ \E p \in DOMAIN main_ds :
          /\ main_ds[p].id \in (NonRootIds \cap DOMAIN index) \ outcome.err.ids
          /\ Children(main_ds, p) # {}

\* C5: when deduplication reports an identity conflict, resolve returns that
\* error and no catalog operation is called for the document.
C5_ConflictBeforeCatalog ==
    (LineageCallDone /\ ConflictIds(main_ds) # {}) =>
        /\ outcome.status = "returned"
        /\ outcome.dataset = NoDataset
        /\ outcome.err.kind = "InvalidDocException"
        /\ index_log = <<>>

\* a tree with a conflicting identity that the catalog knows
C5_Witness ==
    /\ LineageCallDone
    /\ ConflictIds(main_ds) \cap DOMAIN index # {}
    /\ outcome.err.kind = "InvalidDocException"

\* C6: a lineage-aware resolve whose deduplication succeeds calls bulk_get
\* exactly once, with all identities of the graph (root included), and no
\* other catalog operation, whether it ends in success or in an error.
C6_OneBulkLookup ==
    (LineageCallDone /\ ConflictIds(main_ds) = {}) =>
        index_log = <<[op |-> "bulk_get", ids |-> IdsOf(main_ds)]>>

\* a resolve that ended in a matcher error after looking up root and lineage
C6_Witness ==
    /\ LineageCallDone
    /\ ConflictIds(main_ds) = {}
    /\ outcome.err.kind = "BadMatch"
    /\ RootId # NoId
    /\ Cardinality(IdsOf(main_ds)) >= 2
    /\ Len(index_log) = 1

\* the resolve went past verification: every node is resolved or a match failed
ConstructionDone ==
    /\ LookupDone
    /\ outcome.err.kind \notin {"missing_lineage", "inconsistent_lineage"}

\* the matcher's verdict on the document at position p
MatchOf(p) == product_matcher(rules, main_ds[p].body)

\* C7: every node whose identity is in the bulk-lookup result gets the
\* catalog's product without the matcher being invoked for it; every other
\* node gets the matcher's result for its own document, and a matcher failure
\* on such a node fails the whole resolution.
C7_ProductPerNode ==
    ConstructionDone =>
        /\ (\E p \in DOMAIN main_ds :
                main_ds[p].id \notin DOMAIN index /\ MatchOf(p).exc # "none")
              => outcome.dataset = NoDataset
        /\ outcome.dataset # NoDataset =>
              \A p \in DOMAIN main_ds :
                  IF main_ds[p].id \in DOMAIN index
                  THEN /\ arena[node_of[p]].type = index[main_ds[p].id].type
                       /\ \A k \in 1..Len(match_log) : match_log[k] # p
                  ELSE arena[node_of[p]].type = MatchOf(p).product

\* C8: in a resolved graph the dataset of the root document has exactly the
\* caller-supplied location and the dataset of every lineage document has no
\* location, also when documents carry no identity.
C8_OnlyRootHasLocation ==
    (LineageCallDone /\ outcome.dataset # NoDataset) =>
        /\ arena[outcome.dataset].uris = <<uri>>
        /\ \A p \in DOMAIN main_ds \ {Root} : arena[node_of[p]].uris = <<>>

\* C9: with skip_lineage no catalog operation is called; a successful match
\* returns one dataset built from the lineage-stripped root document, with an
\* empty lineage map and the caller's location as its only location; a matcher
\* failure is returned as the error value with no dataset.
C9_NoLineagePath ==
    NoLineageCallDone =>
        /\ index_log = <<>>
        /\ outcome.status = "returned"
        /\ IF MatchOf(Root).exc = "none"
           THEN /\ outcome.dataset # NoDataset
                /\ outcome.err = NoErr
                /\ Len(arena) = 1
                /\ arena[outcome.dataset] =
                      [type |-> MatchOf(Root).product,
                       doc |-> [id |-> RootId, body |-> main_ds[Root].body,
                                lineage |-> NoLineage],
                       uris |-> <<uri>>,
                       sources |-> NoNodes,
                       id |-> RootId]
           ELSE /\ outcome.dataset = NoDataset
                /\ outcome.err.kind = "BadMatch"

\* a root document with embedded lineage resolved with skip_lineage
C9_Witness ==
    /\ NoLineageCallDone
    /\ outcome.dataset # NoDataset
    /\ Children(main_ds, Root) # {}
    /\ RootId \in DOMAIN index

\* C10: every failure while resolving one document, a failure of the catalog's
\* bulk lookup included, is returned by resolve as an error value with no
\* dataset and never raised out of the call.
C10_ErrorsAreReturned ==
    outcome.status # "idle" =>
        /\ outcome.status = "returned"
        /\ outcome.err.kind # "none" => outcome.dataset = NoDataset

\* C20: documents without an identity are never shared: two distinct lineage
\* documents that have no identity get separate Dataset objects, each with its
\* own document body and product.
C20_IdlessNeverShared ==
    (LineageCallDone /\ outcome.dataset # NoDataset) =>
        \A p, q \in DOMAIN main_ds \ {Root} :
            (p # q /\ main_ds[p].id = NoId /\ main_ds[q].id = NoId) =>
                /\ node_of[p] # node_of[q]
                /\ arena[node_of[p]].doc = Doc(main_ds, p)
                /\ arena[node_of[q]].doc = Doc(main_ds, q)

----------------------------------------------------------------------------
(* One resolver called for two documents in turn (SpecSeq) *)

\* the root documents handed to the repeated resolver: a root, or a root and
\* one source
SeqTrees == {tree : tree \in {t \in Trees : DOMAIN t \subseteq {Root, <<1>>}}}

InitSeq ==
    /\ rules \in ResolverRules
    /\ index \in Catalogs
    /\ config \in {c \in Configs : ~c.skip_lineage}
    /\ mdoc = PlatformBody(Absent)
    /\ mresult = NoMatch
    /\ main_ds = NoTree
    /\ uri = NoUri
    /\ outcome = Idle
    /\ arena = <<>>
    /\ node_of = NoNodes
    /\ index_log = <<>>
    /\ match_log = <<>>
    /\ OthersIdle

\* ds_resolve(ds, uri) by a resolver that may have resolved a document before:
\* the Dataset objects of the earlier call stay on the heap
ResolveNext ==
    /\ calls = <<>>
    /\ \E tree \in SeqTrees, u \in Uris, bulk_ok \in BOOLEAN :
          LET e == resolve_in(index, config, rules, tree, u, bulk_ok, arena, memo) IN
          /\ main_ds' = tree
          /\ uri' = u
          /\ outcome' = e.result.outcome
          /\ arena' = e.result.arena
          /\ node_of' = e.result.node_of
          /\ index_log' = e.result.index_log
          /\ match_log' = e.result.match_log
          /\ memo' = e.cache
          /\ calls' = IF outcome.status = "idle" THEN calls ELSE Append(calls, main_ds)
          /\ UNCHANGED <<rules, mdoc, mresult, index, config, walk, cmd, dates>>

NextSeq == ResolveNext

SpecSeq == InitSeq /\ [][NextSeq]_vars

RECURSIVE Unfold(_, _)
\* a Dataset object with its sources read through: product, document,
\* locations and the same of every source
Unfold(a, h) ==
    [type |-> a[h].type, doc |-> a[h].doc, uris |-> a[h].uris,
     sources |-> [c \in DOMAIN a[h].sources |-> Unfold(a, a[h].sources[c])]]

\* what a caller can tell about a call: the dataset or error it got, the
\* dataset of every lineage position and which positions share one object
View(o, a, n) ==
    [status |-> o.status, err |-> o.err,
     dataset |-> IF o.dataset = NoDataset THEN {} ELSE {Unfold(a, o.dataset)},
     nodes |-> [p \in DOMAIN n |-> Unfold(a, n[p])],
     shared |-> {pq \in (DOMAIN n) \X (DOMAIN n) : n[pq[1]] = n[pq[2]]}]

\* the same document resolved alone by a resolver of its own; the catalog's
\* bulk_get raised in the call under study iff that call raised
ResolvedAlone ==
    resolve(index, config, rules, main_ds, uri, outcome.status # "raised")

\* C19: the memoization cache is local to one resolve call: the result of the
\* second of two documents resolved in turn by one resolver against one
\* catalog (products, lineage sharing, error) is what resolving it alone gives.
C19_CacheLocalToCall ==
    calls # <<>> =>
        LET alone == ResolvedAlone IN
        View(outcome, arena, node_of) = View(alone.outcome, alone.arena, alone.node_of)

\* both documents name the same identity with different bodies, the first call
\* built Dataset objects, and the second call returned a dataset
C19_Witness ==
    /\ calls # <<>>
    /\ outcome.dataset # NoDataset
    /\ \E h \in 1..Len(arena) : \A p \in DOMAIN node_of : node_of[p] # h
    /\ \E p \in DOMAIN main_ds, q \in DOMAIN calls[1] :
          /\ main_ds[p].id # NoId
          /\ main_ds[p].id = calls[1][q].id
          /\ main_ds[p].body # calls[1][q].body

----------------------------------------------------------------------------
(* The derived-set walker and the archive command (SpecWalk) *)

\* get_derived calls per identity are counted up to this many
MaxLookups == 2

\* archived_time of a dataset that is not archived (None)
NoTime == -1

MaxTime == 2

Times == 0..MaxTime

\* a dataset of the catalog: the identities derived from it and when it was
\* archived
WalkEntries(S, i) == [id : {i}, derived : SUBSET S, archived_time : {NoTime}]

\* catalogs of active datasets with every 'derived' relation among them
WalkCatalogs ==
    UNION {{c \in [S -> UNION {WalkEntries(S, i) : i \in S}] : \A i \in S : c[i].id = i} :
              S \in SUBSET Ids}

\* index.datasets.get(id_): the dataset, a Dataset being equal to another iff
\* their ids are equal, or None
get(idx, i) == IF i \in DOMAIN idx THEN i ELSE NoId

\* index.datasets.get_derived(id_)
get_derived(idx, i) == IF i \in DOMAIN idx THEN idx[i].derived ELSE {}

\* Dataset.is_archived
is_archived(idx, i) == idx[i].archived_time # NoTime

\* index.datasets.archive(ids) at time now
archive(idx, ids, now) ==
    [i \in DOMAIN idx |->
        IF i \in ids /\ ~is_archived(idx, i)
        THEN [idx[i] EXCEPT !.archived_time = now] ELSE idx[i]]

\* index.datasets.restore(ids)
restore(idx, ids) ==
    [i \in DOMAIN idx |->
        IF i \in ids THEN [idx[i] EXCEPT !.archived_time = NoTime] ELSE idx[i]]

\* the resolver's variables, idle while a command runs
resolver_vars == <<rules, mdoc, mresult, config, main_ds, uri, outcome,
                   arena, node_of, match_log, memo, calls>>

ResolverIdle ==
    /\ rules = <<>>
    /\ mdoc = PlatformBody(Absent)
    /\ mresult = NoMatch
    /\ config = [fail_on_missing_lineage |-> FALSE, verify_lineage |-> TRUE,
                 skip_lineage |-> FALSE]
    /\ main_ds = NoTree
    /\ uri = NoUri
    /\ outcome = Idle
    /\ arena = <<>>
    /\ node_of = NoNodes
    /\ match_log = <<>>
    /\ memo = EmptyCache
    /\ calls = <<>>

InitWalk ==
    /\ ResolverIdle
    /\ dates = NoDates
    /\ index \in WalkCatalogs
    /\ index_log = <<>>
    /\ walk = NoWalk
    /\ cmd = NoCmd

\* derived_set = {index.datasets.get(id_)}; to_process = {id_}
start_walk(idx, i) ==
    [status |-> "walking", to_process |-> {i}, derived_set |-> {get(idx, i)},
     lookups |-> [k \in Ids |-> 0], round |-> 0]

\* derived_set = derived
update_derived_set_replace(derived_set, derived) == derived

\* derived_set.update(derived)
update_derived_set(derived_set, derived) == derived_set \cup derived

\* to_process.update(d.id for d in derived)
update_to_process(to_process, derived) == to_process \cup derived

\* one more call counted, up to MaxLookups
Counted(n) == IF n < MaxLookups THEN n + 1 ELSE n

\* one round of the while loop with to_process.pop() giving i; rounds are
\* told apart by their parity
walk_step(idx, w, i) ==
    LET derived == get_derived(idx, i) IN
    [w EXCEPT !.to_process = update_to_process(w.to_process \ {i}, derived),
              !.derived_set = update_derived_set(w.derived_set, derived),
              !.lookups[i] = Counted(@),
              !.round = 1 - @]

\* archive_cmd for one id: _get_derived_set(index, id_) if archive_derived
ArchiveStart ==
    /\ cmd.status = "idle"
    /\ \E i \in Ids, archive_derived \in BOOLEAN, dry_run \in BOOLEAN :
          /\ cmd' = [status |-> "running", name |-> "archive", id |-> i,
                     derived |-> archive_derived, dry_run |-> dry_run]
          /\ walk' = IF archive_derived THEN start_walk(index, i) ELSE NoWalk
    /\ UNCHANGED <<resolver_vars, dates, index, index_log>>

\* while to_process: one round; to_process.pop() takes an arbitrary element
WalkStep ==
    /\ walk.status = "walking"
    /\ \E i \in walk.to_process : walk' = walk_step(index, walk, i)
    /\ UNCHANGED <<resolver_vars, dates, index, index_log, cmd>>

\* return derived_set
WalkReturn ==
    /\ walk.status = "walking"
    /\ walk.to_process = {}
    /\ walk' = [walk EXCEPT !.status = "done"]
    /\ UNCHANGED <<resolver_vars, dates, index, index_log, cmd>>

\* to_process of archive_cmd
archive_targets(idx, c, w) == IF c.derived THEN w.derived_set ELSE {get(idx, c.id)}

\* archive_cmd past _get_derived_set: the echo reads d.type of every dataset
\* (AttributeError on None), then index.datasets.archive unless dry_run
ArchiveFinish ==
    /\ cmd.status = "running"
    /\ cmd.name = "archive"
    /\ cmd.derived => walk.status = "done"
    /\ LET to_process == archive_targets(index, cmd, walk) IN
       IF NoId \in to_process
       THEN /\ cmd' = [cmd EXCEPT !.status = "raised"]
            /\ UNCHANGED <<index, index_log>>
       ELSE /\ cmd' = [cmd EXCEPT !.status = "done"]
            /\ IF cmd.dry_run
               THEN UNCHANGED <<index, index_log>>
               ELSE \E now \in Times :
                       /\ index' = archive(index, to_process, now)
                       /\ index_log' = Append(index_log,
                                              [op |-> "archive", ids |-> to_process])
    /\ UNCHANGED <<resolver_vars, dates, walk>>

NextWalk == ArchiveStart \/ WalkStep \/ WalkReturn \/ ArchiveFinish

SpecWalk == InitWalk /\ [][NextWalk]_vars

\* the while loop keeps running while it has work
SpecWalkFair == SpecWalk /\ WF_vars(WalkStep) /\ WF_vars(WalkReturn)

----------------------------------------------------------------------------
(* Properties of the walker and of archive (SpecWalk, SpecWalkFair) *)

RECURSIVE Reach(_, _, _)
\* the identities reachable from frontier by zero or more derived edges
Reach(idx, frontier, seen) ==
    IF frontier = {} THEN seen
    ELSE LET next == UNION {get_derived(idx, i) : i \in frontier} IN
         Reach(idx, next \ (seen \cup frontier), seen \cup frontier)

\* the identities reachable from i by one or more derived edges
DerivedFrom(idx, i) == Reach(idx, get_derived(idx, i), {})

\* no dataset is derived from itself along one or more edges
Acyclic(idx) == \A i \in DOMAIN idx : i \notin DerivedFrom(idx, i)

\* C12: the walker terminates for every root identity and every finite
\* derived relation: a walk that has started eventually returns.
C12_WalkerTerminates == (walk.status = "walking") ~> (walk.status = "done")

\* C13: during one walk get_derived is called at most once for each identity,
\* whatever order identities are taken from the work queue.
\* Stated for the relations without a cycle, where the walk ends.
C13_OneLookupPerIdentity ==
    Acyclic(index) => \A i \in Ids : walk.lookups[i] <= 1

\* C14: when the walker returns, its result is exactly the root dataset with
\* every dataset reachable from the root by one or more derived edges; archive
\* with --archive-derived archives exactly that set, without it exactly the root.
C14_WalkerResult ==
    /\ (walk.status = "done" /\ cmd.id \in DOMAIN index) =>
           walk.derived_set = {cmd.id} \cup DerivedFrom(index, cmd.id)
    /\ (cmd.status = "done" /\ cmd.name = "archive" /\ ~cmd.dry_run) =>
           /\ Len(index_log) = 1
           /\ index_log[1].op = "archive"
           /\ index_log[1].ids = IF cmd.derived
                                 THEN {cmd.id} \cup DerivedFrom(index, cmd.id)
                                 ELSE {cmd.id}

\* a cascading archive of a root with a dataset two edges away that is also
\* derived from the root directly: all three were archived
C14_Witness ==
    /\ cmd.status = "done"
    /\ cmd.name = "archive"
    /\ cmd.derived
    /\ ~cmd.dry_run
    /\ \E a, b \in DOMAIN index \ {cmd.id} :
          /\ a # b
          /\ a \in index[cmd.id].derived
          /\ b \in index[cmd.id].derived
          /\ b \in index[a].derived
          /\ index_log[1].ids = {cmd.id, a, b}
          /\ \A i \in {cmd.id, a, b} : is_archived(index, i)

----------------------------------------------------------------------------
(* The restore command (SpecRestore) *)

MaxTolerance == 1

\* derived_tolerance_seconds
Tolerances == 0..MaxTolerance

\* a dataset that is active or was archived at one of Times
RestoreEntries(S, i) ==
    [id : {i}, derived : SUBSET {k \in S : k > i}, archived_time : {NoTime} \cup Times]

\* catalogs whose 'derived' relation has no cycle, the identities numbered so
\* that a dataset is derived from lower ones; on the others the walk of a
\* cascading restore does not return
RestoreCatalogs ==
    {c : c \in UNION {{c \in [S -> UNION {RestoreEntries(S, i) : i \in S}] :
                          \A i \in S : c[i].id = i} : S \in SUBSET Ids}}

RECURSIVE walk_on(_, _)
\* the while loop of _get_derived_set run to its end
walk_on(idx, w) ==
    IF w.to_process = {} THEN w.derived_set
    ELSE walk_on(idx, walk_step(idx, w, CHOOSE i \in w.to_process : TRUE))

\* _get_derived_set(index, id_) where it returns
get_derived_set(idx, i) == walk_on(idx, start_walk(idx, i))

\* within_tolerance(dataset)
within_tolerance(idx, target, d, tolerance) ==
    IF ~is_archived(idx, d) THEN FALSE
    ELSE LET t == idx[target].archived_time IN
         (t - tolerance) <= idx[d].archived_time /\ idx[d].archived_time <= (t + tolerance)

\* if restore_derived and target_dataset.is_archived:
\*     to_process = set(filter(within_tolerance, to_process))
restore_filter(idx, target, restore_derived, tolerance, to_process) ==
    IF restore_derived /\ is_archived(idx, target)
    THEN {d \in to_process : within_tolerance(idx, target, d, tolerance)}
    ELSE to_process

\* no filter on the archival time
restore_selection_unfiltered(idx, i, restore_derived, tolerance) ==
    LET target_dataset == get(idx, i)
        selected == IF restore_derived THEN get_derived_set(idx, i) ELSE {target_dataset}
    IN
    IF NoId \in selected THEN [exc |-> "AttributeError", to_process |-> {}]
    ELSE [exc |-> "none", to_process |-> {d \in selected : is_archived(idx, d)}]

\* no filter on the archived flag
restore_selection_any(idx, i, restore_derived, tolerance) ==
    LET target_dataset == get(idx, i)
        selected == IF restore_derived THEN get_derived_set(idx, i) ELSE {target_dataset}
    IN
    IF NoId \in selected THEN [exc |-> "AttributeError", to_process |-> {}]
    ELSE [exc |-> "none",
          to_process |-> restore_filter(idx, target_dataset, restore_derived, tolerance,
                                        selected)]

\* _restore_one up to the echo: the datasets selected, None among them raising
\* AttributeError at d.is_archived
restore_selection(idx, i, restore_derived, tolerance) ==
    LET target_dataset == get(idx, i)
        selected == IF restore_derived THEN get_derived_set(idx, i) ELSE {target_dataset}
    IN
    IF NoId \in selected THEN [exc |-> "AttributeError", to_process |-> {}]
    ELSE [exc |-> "none",
          to_process |-> restore_filter(idx, target_dataset, restore_derived, tolerance,
                                        {d \in selected : is_archived(idx, d)})]

InitRestore ==
    /\ ResolverIdle
    /\ dates = NoDates
    /\ index \in RestoreCatalogs
    /\ index_log = <<>>
    /\ walk = NoWalk
    /\ cmd = NoCmd

\* _restore_one(dry_run, id_, index, restore_derived, tolerance); seen keeps the
\* datasets as the command fetched them
RestoreOne ==
    /\ cmd.status = "idle"
    /\ \E i \in Ids, restore_derived \in BOOLEAN, dry_run \in BOOLEAN,
          tolerance \in Tolerances :
          LET sel == restore_selection(index, i, restore_derived, tolerance) IN
          /\ cmd' = [status |-> IF sel.exc = "none" THEN "done" ELSE "raised",
                     name |-> "restore", id |-> i, derived |-> restore_derived,
                     dry_run |-> dry_run, tolerance |-> tolerance, seen |-> index]
          /\ IF sel.exc = "none" /\ ~dry_run
             THEN /\ index' = restore(index, sel.to_process)
                  /\ index_log' = Append(index_log,
                                         [op |-> "restore", ids |-> sel.to_process])
             ELSE UNCHANGED <<index, index_log>>
    /\ UNCHANGED <<resolver_vars, dates, walk>>

NextRestore == RestoreOne

SpecRestore == InitRestore /\ [][NextRestore]_vars

----------------------------------------------------------------------------
(* Properties of restore (SpecRestore) *)

\* a cascading restore returned
CascadingRestoreDone ==
    cmd.status = "done" /\ cmd.name = "restore" /\ cmd.derived

\* the identities handed to index.datasets.restore
Restored == UNION {index_log[k].ids : k \in 1..Len(index_log)}

\* d was archived at a time in [T - tolerance, T + tolerance], T the time the
\* root was archived
InWindow(d) ==
    /\ is_archived(cmd.seen, cmd.id)
    /\ is_archived(cmd.seen, d)
    /\ cmd.seen[cmd.id].archived_time - cmd.tolerance <= cmd.seen[d].archived_time
    /\ cmd.seen[d].archived_time <= cmd.seen[cmd.id].archived_time + cmd.tolerance

\* C15 as stated: in a cascading restore a derived dataset is passed to the
\* catalog's restore only if it was archived inside the window around the
\* root's archival time, and one archived inside it always is, in every
\* catalog state.
C15_ToleranceWindow ==
    CascadingRestoreDone =>
        \A d \in DerivedFrom(cmd.seen, cmd.id) : (d \in Restored) <=> InWindow(d)

\* C15 amended: for a root that is archived, a derived dataset is passed to
\* restore only if it was archived inside the window, and unless the run is a
\* dry run every one archived inside it is passed; for a root that is not
\* archived every archived derived dataset is passed unless the run is a dry run.
C15_ToleranceWindowOfArchivedRoot ==
    CascadingRestoreDone =>
        \A d \in DerivedFrom(cmd.seen, cmd.id) :
            IF is_archived(cmd.seen, cmd.id)
            THEN /\ (d \in Restored) => InWindow(d)
                 /\ (InWindow(d) /\ ~cmd.dry_run) => d \in Restored
            ELSE (d \in Restored) <=> (is_archived(cmd.seen, d) /\ ~cmd.dry_run)

\* a cascading restore of an archived root with one derived dataset restored
\* from the edge of the window and one left archived outside it
C15_Witness ==
    /\ CascadingRestoreDone
    /\ ~cmd.dry_run
    /\ is_archived(cmd.seen, cmd.id)
    /\ \E a, b \in DerivedFrom(cmd.seen, cmd.id) :
          /\ is_archived(cmd.seen, a) /\ is_archived(cmd.seen, b)
          /\ cmd.seen[a].archived_time = cmd.seen[cmd.id].archived_time + cmd.tolerance
          /\ a \in Restored /\ ~is_archived(index, a)
          /\ ~InWindow(b)
          /\ b \notin Restored /\ is_archived(index, b)

\* C22: every identity _restore_one passes to the catalog's restore, with or
\* without restore_derived, is that of a dataset that was archived when the
\* command read it; a dataset that is still active is never passed to restore.
C22_RestoreOnlyArchived ==
    (cmd.status \in {"done", "raised"} /\ cmd.name = "restore") =>
        \A k \in 1..Len(index_log) :
            /\ index_log[k].op = "restore"
            /\ \A d \in index_log[k].ids :
                  d \in DOMAIN cmd.seen /\ is_archived(cmd.seen, d)

\* a cascading restore from an active root with an active and an archived
\* derived dataset: the archived one alone was passed to restore
C22_Witness ==
    /\ CascadingRestoreDone
    /\ ~cmd.dry_run
    /\ ~is_archived(cmd.seen, cmd.id)
    /\ \E a, b \in DerivedFrom(cmd.seen, cmd.id) :
          /\ ~is_archived(cmd.seen, a)
          /\ is_archived(cmd.seen, b)
          /\ Len(index_log) = 1
          /\ index_log[1].ids = {b}
          /\ ~is_archived(index, b)

----------------------------------------------------------------------------
(* load_datasets and load_datasets_for_update (SpecLoad) *)

\* the sources a command is given are at most this many
MaxDocs == 2

MeasurementNames == {"red", "nir"}

\* dataset.type.measurements.keys() of a product
ProductMeasurementSets == {{}, {"red"}}

\* dataset.measurements: None, or a dictionary with these keys
NoMeasurements == [defined |-> FALSE, keys |-> {}]

Sections ==
    {NoMeasurements} \cup {[defined |-> TRUE, keys |-> k] : k \in SUBSET MeasurementNames}

\* the documents the sources hold: a root alone, or an LS7 root with one LS7
\* source
LoadTrees ==
    {tree : tree \in {t \in Trees :
        \/ DOMAIN t = {Root}
        \/ /\ DOMAIN t = {Root, <<1>>}
           /\ \A q \in DOMAIN t : t[q].body = PlatformBody("LS7")}}

\* the catalogs, as far as they hold the identities of these documents
LoadCatalogs ==
    {c \in Catalogs : DOMAIN c \subseteq UNION {IdsOf(t) : t \in LoadTrees}}

\* the resolvers of the add command that verify lineage
LoadConfigs == {c \in Configs : c.verify_lineage}

\* the outcome of one source, for the record
Loaded(k, st, ds, ok) ==
    [kind |-> k, status |-> st, dataset |-> ds, consistent |-> ok]

\* a rejection whenever the product expects measurements
check_dataset_consistent_no_subset_test(product_measurements, measurements) ==
    IF product_measurements = {} THEN [ok |-> TRUE, reason |-> "none"]
    ELSE IF ~measurements.defined
    THEN [ok |-> FALSE, reason |-> "No measurements defined for a dataset"]
    ELSE [ok |-> TRUE, reason |-> "none"]

\* check_dataset_consistent(dataset), from dataset.type.measurements.keys() and
\* dataset.measurements
check_dataset_consistent(product_measurements, measurements) ==
    IF product_measurements = {} THEN [ok |-> TRUE, reason |-> "none"]
    ELSE IF ~measurements.defined
    THEN [ok |-> FALSE, reason |-> "No measurements defined for a dataset"]
    ELSE IF ~(product_measurements \subseteq measurements.keys)
    THEN [ok |-> FALSE, reason |-> "measurement fields don't match type specification"]
    ELSE [ok |-> TRUE, reason |-> "none"]

\* check_dataset_consistent on a dataset of the command c
dataset_consistent(c, ds) ==
    check_dataset_consistent(c.products[ds.type], c.measurements[ds.doc.body]).ok

\* if not is_consistent: continue / if is_consistent: yield
yield_checked(is_consistent) == is_consistent

\* ds_resolve(ds, uri): resolve_no_lineage if skip_lineage else resolve
ds_resolve(idx, cfg, rs, tree, u, bulk_ok) ==
    IF cfg.skip_lineage THEN resolve_no_lineage(rs, tree, u)
    ELSE resolve(idx, cfg, rs, tree, u, bulk_ok)

\* one round of load_datasets: resolve, then check_dataset_consistent
load_dataset(c, idx, cfg, rs, tree, u, bulk_ok) ==
    LET r == ds_resolve(idx, cfg, rs, tree, u, bulk_ok) IN
    IF r.outcome.status = "raised" THEN Loaded("document", "raised", {}, FALSE)
    ELSE IF r.outcome.dataset = NoDataset
    THEN Loaded("document", "error", {}, FALSE)
    ELSE LET dataset == Unfold(r.arena, r.outcome.dataset) IN
         Loaded("document", "dataset", {dataset}, dataset_consistent(c, dataset))

\* load_datasets_for_update.mk_dataset and check_dataset_consistent
load_dataset_for_update(c, idx, tree, u) ==
    LET ds == Doc(tree, Root)
        uuid == ds.id
    IN
    IF uuid = NoId THEN Loaded("document", "error", {}, FALSE)
    ELSE IF get(idx, uuid) = NoId THEN Loaded("document", "error", {}, FALSE)
    ELSE LET dataset == Dataset(idx[uuid].type, doc_without_lineage_sources(ds),
                                <<u>>, NoNodes)
         IN Loaded("document", "dataset", {dataset}, dataset_consistent(c, dataset))

\* the products' measurements and the measurement section of the documents
\* of each body
LoadEnvironments ==
    [products : [Products -> ProductMeasurementSets],
     measurements : [TreeBodies -> Sections]]

\* a command given n sources, none read yet
StartCmd(name, n, env) ==
    [status |-> "running", name |-> name, total |-> n, log |-> <<>>, yielded |-> <<>>,
     products |-> env.products, measurements |-> env.measurements]

InitLoad ==
    /\ mdoc = PlatformBody(Absent)
    /\ mresult = NoMatch
    /\ main_ds = NoTree
    /\ uri = NoUri
    /\ outcome = Idle
    /\ arena = <<>>
    /\ node_of = NoNodes
    /\ index_log = <<>>
    /\ match_log = <<>>
    /\ memo = EmptyCache
    /\ calls = <<>>
    /\ walk = NoWalk
    /\ dates = NoDates
    /\ index \in LoadCatalogs
    /\ \E n \in 0..MaxDocs, env \in LoadEnvironments :
          \/ /\ rules \in ResolverRules
             /\ config \in LoadConfigs
             /\ cmd = StartCmd("add", n, env)
          \/ /\ rules = <<>>
             /\ config = [fail_on_missing_lineage |-> FALSE, verify_lineage |-> TRUE,
                          skip_lineage |-> FALSE]
             /\ cmd = StartCmd("update", n, env)

\* after one source: the record, the dataset yielded, an exception leaving the
\* generator
AfterSource(c, e) ==
    [c EXCEPT !.log = Append(@, e),
              !.yielded = IF e.status = "dataset" /\ yield_checked(e.consistent)
                          THEN Append(@, CHOOSE d \in e.dataset : TRUE) ELSE @,
              !.status = IF e.status = "raised" THEN "raised" ELSE @]

\* doc_path_stream: a source that cannot be read goes to on_error
SkipSource ==
    /\ cmd.status = "running"
    /\ Len(cmd.log) < cmd.total
    /\ cmd' = AfterSource(cmd, Loaded("unreadable", "skipped", {}, FALSE))
    /\ UNCHANGED <<resolver_vars, dates, index, index_log, walk>>

\* load_datasets: one round of the for loop
LoadNext ==
    /\ cmd.status = "running"
    /\ cmd.name = "add"
    /\ Len(cmd.log) < cmd.total
    /\ \E tree \in LoadTrees, u \in Uris, bulk_ok \in BOOLEAN :
          cmd' = AfterSource(cmd, load_dataset(cmd, index, config, rules, tree, u, bulk_ok))
    /\ UNCHANGED <<resolver_vars, dates, index, index_log, walk>>

\* load_datasets_for_update: one round of the for loop
LoadNextForUpdate ==
    /\ cmd.status = "running"
    /\ cmd.name = "update"
    /\ Len(cmd.log) < cmd.total
    /\ \E tree \in LoadTrees, u \in Uris :
          cmd' = AfterSource(cmd, load_dataset_for_update(cmd, index, tree, u))
    /\ UNCHANGED <<resolver_vars, dates, index, index_log, walk>>

\* the sources are exhausted
LoadEnd ==
    /\ cmd.status = "running"
    /\ Len(cmd.log) = cmd.total
    /\ cmd' = [cmd EXCEPT !.status = "done"]
    /\ UNCHANGED <<resolver_vars, dates, index, index_log, walk>>

NextLoad == SkipSource \/ LoadNext \/ LoadNextForUpdate \/ LoadEnd

SpecLoad == InitLoad /\ [][NextLoad]_vars

----------------------------------------------------------------------------
(* Properties of the loaders (SpecLoad) *)

\* the generator ended, by exhausting its sources or by an exception
LoadOver == cmd.status \in {"done", "raised"}

RECURSIVE Passed(_, _)
\* the datasets of the first k sources of the record that resolved to a
\* dataset and passed the check, in input order
Passed(log, k) ==
    IF k = 0 THEN <<>>
    ELSE IF log[k].status = "dataset" /\ log[k].consistent
         THEN Append(Passed(log, k - 1), CHOOSE d \in log[k].dataset : TRUE)
         ELSE Passed(log, k - 1)

\* C11: load_datasets skips a document whose resolution yields an error or
\* whose dataset fails the measurement check and still resolves every later
\* document: when it ends every source has had its turn, and the datasets
\* yielded are exactly those that resolved and passed the check, in input
\* order, each once.
C11_LoadContinues ==
    (LoadOver /\ cmd.name = "add") =>
        /\ Len(cmd.log) = cmd.total
        /\ \A k \in 1..Len(cmd.log) : cmd.log[k].status # "raised"
        /\ cmd.yielded = Passed(cmd.log, Len(cmd.log))

\* the product's required measurements, and the dataset's measurements
Required(ds) == cmd.products[ds.type]

Measured(ds) == cmd.measurements[ds.doc.body]

\* the required set is empty or the dataset's measurement keys include it
Accepted(ds) ==
    Required(ds) = {} \/ (Measured(ds).defined /\ Required(ds) \subseteq Measured(ds).keys)

\* C16: check_dataset_consistent accepts a dataset iff its product's required
\* measurement set is empty or the dataset's measurement keys are a superset
\* of it; a dataset without measurements is rejected exactly when the required
\* set is non-empty; load_datasets and load_datasets_for_update never yield a
\* dataset the check rejects.
C16_MeasurementCheck ==
    cmd.status # "idle" =>
        /\ \A k \in 1..Len(cmd.log) : \A ds \in cmd.log[k].dataset :
              /\ cmd.log[k].consistent <=> Accepted(ds)
              /\ ~Measured(ds).defined => (~cmd.log[k].consistent <=> Required(ds) # {})
        /\ \A k \in 1..Len(cmd.yielded) : Accepted(cmd.yielded[k])

\* load_datasets_for_update met a dataset whose measurements miss a required
\* one and skipped it, then yielded one that has more than the required ones
C16_Witness ==
    /\ cmd.status = "done"
    /\ cmd.name = "update"
    /\ Len(cmd.log) = 2
    /\ Len(cmd.yielded) = 1
    /\ \E ds \in cmd.log[1].dataset :
          /\ Required(ds) # {}
          /\ Measured(ds).defined
          /\ ~cmd.log[1].consistent
    /\ \E ds \in cmd.log[2].dataset :
          /\ Required(ds) # {}
          /\ Measured(ds).keys # Required(ds)
          /\ cmd.yielded[1] = ds

----------------------------------------------------------------------------
(* The update command (SpecUpdate) *)

\* a location recorded earlier for a dataset
OldUri == "file:///old.yaml"

\* existing_ds.uris: no location, one, or several
LocationLists ==
    {<<>>, <<OldUri>>} \cup {<<u>> : u \in Uris} \cup {<<OldUri, u>> : u \in Uris}

\* a catalogued dataset with its locations
UpdateEntries(i) ==
    {[id |-> e.id, type |-> e.type, metadata_doc |-> e.metadata_doc, uris |-> l] :
        e \in CatalogEntries(i), l \in LocationLists}

UpdateCatalogs ==
    {c : c \in UNION {{c \in [S -> UNION {UpdateEntries(i) : i \in S}] :
                          \A i \in S : c[i].id = i} : S \in SUBSET Ids}}

\* the documents given to update: no lineage is read from them
UpdateTrees == {[p \in {Root} |-> l] : l \in NodeLabels}

\* --location-policy
LocationPolicies == {"keep", "archive", "forget"}

\* parse_update_rules(keys_that_can_change): the fields that may change
UpdateRules == {{}, {"body"}}

\* products that require no measurement: every dataset is consistent
UpdateEnvironment ==
    [products |-> [p \in Products |-> {}],
     measurements |-> [b \in TreeBodies |-> NoMeasurements]]

\* index.datasets.can_update(dataset, updates_allowed)
can_update(idx, dataset, updates_allowed) ==
    get_doc_changes(idx[dataset.id].metadata_doc, dataset.doc) \subseteq updates_allowed

\* index.datasets.update(dataset, updates_allowed) where it does not raise:
\* the new document and its location are recorded
update(idx, dataset) ==
    [idx EXCEPT ![dataset.id] =
        [@ EXCEPT !.metadata_doc = dataset.doc,
                  !.uris = IF \E k \in 1..Len(@) : @[k] = dataset.uris[1]
                           THEN @ ELSE dataset.uris \o @]]

\* index.datasets.archive_location(id, uri) and remove_location(id, uri): the
\* location is no longer among the dataset's locations
drop_location(idx, i, u) ==
    [idx EXCEPT ![i].uris = SelectSeq(@, LAMBDA x : x # u)]

\* a catalog operation, for the record
CatalogOp(op, i, u) == [op |-> op, id |-> i, uri |-> u]

\* loc_action that takes the first of several locations for the old one
loc_action_first_of_several(action_name, dry_run, new_ds, existing_ds) ==
    IF Len(existing_ds.uris) = 0 THEN <<>>
    ELSE LET new_uri == new_ds.uris[1]
             old_uri == existing_ds.uris[1]
         IN
         IF new_uri = old_uri THEN <<>>
         ELSE IF dry_run THEN <<>>
         ELSE <<CatalogOp(action_name, existing_ds.id, old_uri)>>

\* update_cmd.loc_action: the catalog operations it makes
loc_action(action_name, dry_run, new_ds, existing_ds) ==
    IF Len(existing_ds.uris) = 0 THEN <<>>
    ELSE IF Len(existing_ds.uris) > 1 THEN <<>>
    ELSE LET new_uri == new_ds.uris[1]
             old_uri == existing_ds.uris[1]
         IN
         IF new_uri = old_uri THEN <<>>
         ELSE IF dry_run THEN <<>>
         ELSE <<CatalogOp(action_name, existing_ds.id, old_uri)>>

\* update_loc = dict(archive=loc_archive, forget=loc_forget, keep=loc_keep)[location_policy]
update_loc(location_policy, dry_run, new_ds, existing_ds) ==
    IF location_policy = "archive"
    THEN loc_action("archive_location", dry_run, new_ds, existing_ds)
    ELSE IF location_policy = "forget"
    THEN loc_action("remove_location", dry_run, new_ds, existing_ds)
    ELSE <<>>

\* the catalog after the operations ops
RECURSIVE apply_ops(_, _)
apply_ops(idx, ops) ==
    IF ops = <<>> THEN idx
    ELSE apply_ops(drop_location(idx, ops[1].id, ops[1].uri), Tail(ops))

\* what update_cmd did with one source: e the loader's record, then the
\* locations the existing dataset had, the catalog operations made, whether
\* the catalog accepted the update, and how the dataset was counted
Updated(e, uris, ops, accepted, counted) ==
    [kind |-> e.kind, status |-> e.status, dataset |-> e.dataset,
     consistent |-> e.consistent, existing_uris |-> uris, ops |-> ops,
     accepted |-> accepted, counted |-> counted]

\* no handler: the ValueError of index.datasets.update leaves update_cmd
on_ValueError_uncaught(e, uris, attempt) ==
    Updated([e EXCEPT !.status = "raised"], uris, attempt, FALSE, "none")

\* except ValueError as e: fail += 1
on_ValueError(e, uris, attempt) == Updated(e, uris, attempt, FALSE, "fail")

\* the body of update_cmd's for loop for a dataset the loader yielded
update_dataset(c, idx, e) ==
    LET dataset == CHOOSE d \in e.dataset : TRUE
        existing_ds == idx[dataset.id]
        ok == can_update(idx, dataset, c.updates_allowed)
        attempt == <<CatalogOp("update", dataset.id, NoUri)>>
        loc == update_loc(c.location_policy, c.dry_run, dataset, existing_ds)
    IN
    IF ~c.dry_run
    THEN IF ok
         THEN Updated(e, existing_ds.uris, attempt \o loc, TRUE, "success")
         ELSE on_ValueError(e, existing_ds.uris, attempt)
    ELSE IF ok
         THEN Updated(e, existing_ds.uris, loc, TRUE, "success")
         ELSE Updated(e, existing_ds.uris, <<>>, FALSE, "fail")

InitUpdate ==
    /\ ResolverIdle
    /\ dates = NoDates
    /\ index \in UpdateCatalogs
    /\ index_log = <<>>
    /\ walk = NoWalk
    /\ \E n \in 0..MaxDocs, policy \in LocationPolicies, dry_run \in BOOLEAN,
          allowed \in UpdateRules :
          cmd = StartCmd("update", n, UpdateEnvironment)
                  @@ [location_policy |-> policy, dry_run |-> dry_run,
                      updates_allowed |-> allowed, success |-> 0, fail |-> 0]

\* update_cmd: the loader's round for one document and, for a dataset it
\* yields, the body of the for loop
UpdateNext ==
    /\ cmd.status = "running"
    /\ Len(cmd.log) < cmd.total
    /\ \E tree \in UpdateTrees, u \in Uris :
          LET e == load_dataset_for_update(cmd, index, tree, u) IN
          IF e.status = "dataset" /\ yield_checked(e.consistent)
          THEN LET r == update_dataset(cmd, index, e)
                   dataset == CHOOSE d \in e.dataset : TRUE
               IN
               /\ cmd' = [cmd EXCEPT !.log = Append(@, r),
                                     !.yielded = Append(@, dataset),
                                     !.status = IF r.status = "raised" THEN "raised" ELSE @,
                                     !.success = IF r.counted = "success" THEN @ + 1 ELSE @,
                                     !.fail = IF r.counted = "fail" THEN @ + 1 ELSE @]
               /\ index' = IF r.accepted /\ ~cmd.dry_run
                           THEN apply_ops(update(index, dataset), Tail(r.ops))
                           ELSE index
               /\ index_log' = index_log \o r.ops
          ELSE /\ cmd' = [cmd EXCEPT !.log = Append(@, Updated(e, <<>>, <<>>, FALSE, "none"))]
               /\ UNCHANGED <<index, index_log>>
    /\ UNCHANGED <<resolver_vars, dates, walk>>

\* doc_path_stream: a source that cannot be read goes to on_error
UpdateSkipSource ==
    /\ cmd.status = "running"
    /\ Len(cmd.log) < cmd.total
    /\ cmd' = [cmd EXCEPT !.log =
                  Append(@, Updated(Loaded("unreadable", "skipped", {}, FALSE),
                                    <<>>, <<>>, FALSE, "none"))]
    /\ UNCHANGED <<resolver_vars, dates, index, index_log, walk>>

\* echo('%d successful, %d failed' % (success, fail))
UpdateEnd ==
    /\ cmd.status = "running"
    /\ Len(cmd.log) = cmd.total
    /\ cmd' = [cmd EXCEPT !.status = "done"]
    /\ UNCHANGED <<resolver_vars, dates, index, index_log, walk>>

NextUpdate == UpdateNext \/ UpdateSkipSource \/ UpdateEnd

SpecUpdate == InitUpdate /\ [][NextUpdate]_vars

----------------------------------------------------------------------------
(* Properties of update (SpecUpdate) *)

\* the sources whose dataset the loader yielded to update_cmd
LoadedForUpdate ==
    {k \in 1..Len(cmd.log) : cmd.log[k].status = "dataset" /\ cmd.log[k].consistent}

\* C17: update processes every dataset of the batch even when the catalog
\* rejects the update of an earlier one; when it finishes success + fail is the
\* number of datasets loaded for update, each counted once, as a success only
\* if its catalog update (in dry-run its can_update check) succeeded.
C17_UpdateCounts ==
    /\ cmd.status # "raised"
    /\ cmd.status = "done" =>
          /\ Len(cmd.log) = cmd.total
          /\ cmd.success + cmd.fail = Cardinality(LoadedForUpdate)
          /\ cmd.success = Cardinality({k \in LoadedForUpdate : cmd.log[k].accepted})
          /\ \A k \in 1..Len(cmd.log) :
                /\ k \in LoadedForUpdate => cmd.log[k].counted \in {"success", "fail"}
                /\ k \notin LoadedForUpdate => cmd.log[k].counted = "none"
                /\ cmd.log[k].counted = "success" => cmd.log[k].accepted

\* the catalog rejected the update of the first dataset and accepted that of
\* the second
C17_Witness ==
    /\ cmd.status = "done"
    /\ ~cmd.dry_run
    /\ LoadedForUpdate = {1, 2}
    /\ ~cmd.log[1].accepted
    /\ cmd.log[2].accepted
    /\ cmd.fail = 1
    /\ cmd.success = 1

\* the archive_location and remove_location calls made for the k-th source
LocationOps(k) ==
    SelectSeq(cmd.log[k].ops, LAMBDA o : o.op \in {"archive_location", "remove_location"})

\* C18: the old location of an existing dataset is archived (policy archive)
\* or removed (policy forget) only when the existing dataset has exactly one
\* location and it differs from the new document's; with several locations,
\* none, the same one, or policy keep neither operation is called; at most one
\* of the two is called per dataset.
C18_LocationReconciliation ==
    cmd.status # "idle" =>
        \A k \in 1..Len(cmd.log) :
            /\ Len(LocationOps(k)) <= 1
            /\ LocationOps(k) # <<>> =>
                  /\ Len(cmd.log[k].existing_uris) = 1
                  /\ \A ds \in cmd.log[k].dataset :
                        /\ cmd.log[k].existing_uris[1] # ds.uris[1]
                        /\ LocationOps(k)[1].id = ds.id
                  /\ LocationOps(k)[1].uri = cmd.log[k].existing_uris[1]
                  /\ cmd.location_policy # "keep"
                  /\ LocationOps(k)[1].op = IF cmd.location_policy = "archive"
                                            THEN "archive_location" ELSE "remove_location"

\* one batch under policy forget: a dataset with two locations is updated and
\* keeps them, a dataset with one other location is updated and loses it
C18_Witness ==
    /\ cmd.status = "done"
    /\ cmd.location_policy = "forget"
    /\ LoadedForUpdate = {1, 2}
    /\ cmd.log[1].accepted /\ cmd.log[2].accepted
    /\ Len(cmd.log[1].existing_uris) = 2
    /\ LocationOps(1) = <<>>
    /\ cmd.log[2].existing_uris = <<OldUri>>
    /\ Len(LocationOps(2)) = 1
    /\ \A ds \in cmd.log[2].dataset : index[ds.id].uris = ds.uris

----------------------------------------------------------------------------
(* The add command: load_datasets feeding index_datasets (SpecAdd) *)

\* how index.datasets.add ends: it returns, or raises one of the exceptions
\* index_datasets catches
AddFaults == {"none", "ValueError", "MissingRecordError"}

\* the products' measurements: none required, or "red" required of p1's
\* datasets, whose documents define no measurements
AddEnvironments ==
    {UpdateEnvironment,
     [products |-> [p \in Products |-> IF p = "p1" THEN {"red"} ELSE {}],
      measurements |-> [b \in TreeBodies |-> NoMeasurements]]}

\* index_cmd: dataset_resolver(index, rules, skip_lineage=confirm_ignore_lineage,
\* fail_on_missing_lineage=not auto_add_lineage, verify_lineage=verify_lineage)
AddConfigs(auto_add_lineage) ==
    {c \in Configs : ~c.skip_lineage => (c.fail_on_missing_lineage = ~auto_add_lineage)}

RECURSIVE Flat(_)
\* a dataset with the datasets of its lineage
Flat(ds) == {ds} \cup UNION {Flat(ds.sources[c]) : c \in DOMAIN ds.sources}

\* what the catalog records for a dataset
Catalogued(ds) ==
    [id |-> ds.doc.id, type |-> ds.type,
     metadata_doc |-> doc_without_lineage_sources(ds.doc)]

\* index.datasets.add(dataset, with_lineage) where it returns: the dataset, and
\* with_lineage the datasets of its lineage, recorded unless already there
add(idx, dataset, with_lineage) ==
    LET dss == IF with_lineage THEN Flat(dataset) ELSE {dataset}
        new == {d \in dss : d.doc.id # NoId /\ d.doc.id \notin DOMAIN idx}
    IN
    [i \in DOMAIN idx \cup {d.doc.id : d \in new} |->
        IF i \in DOMAIN idx THEN idx[i]
        ELSE Catalogued(CHOOSE d \in new : d.doc.id = i)]

\* a dataset without an identity fails the catalog's validation
add_fault(dataset, fault) == IF dataset.doc.id = NoId THEN "ValueError" ELSE fault

\* a call of index.datasets.add, for the record
AddCall(dataset, with_lineage, exc) ==
    [op |-> "add", dataset |-> dataset, with_lineage |-> with_lineage, exc |-> exc]

\* what index_datasets did with one dataset: the catalog after it, the catalog
\* operations made, whether an exception left the loop
Indexed(idx, ops, raised) == [index |-> idx, ops |-> ops, raised |-> raised]

\* no handler: the exception of index.datasets.add leaves index_datasets
on_add_error_uncaught(idx, call) == Indexed(idx, <<call>>, TRUE)

\* except (ValueError, MissingRecordError) as e: _LOG.error(...)
on_add_error(idx, call) == Indexed(idx, <<call>>, FALSE)

\* an add whatever dry_run says
index_dataset_always(c, idx, dataset, fault) ==
    LET exc == add_fault(dataset, fault)
        call == AddCall(dataset, c.auto_add_lineage, exc)
    IN
    IF exc = "none"
    THEN Indexed(add(idx, dataset, c.auto_add_lineage), <<call>>, FALSE)
    ELSE on_add_error(idx, call)

\* the body of index_datasets' for loop
index_dataset(c, idx, dataset, fault) ==
    IF ~c.dry_run
    THEN LET exc == add_fault(dataset, fault)
             call == AddCall(dataset, c.auto_add_lineage, exc)
         IN
         IF exc = "none"
         THEN Indexed(add(idx, dataset, c.auto_add_lineage), <<call>>, FALSE)
         ELSE on_add_error(idx, call)
    ELSE Indexed(idx, <<>>, FALSE)

InitAdd ==
    /\ mdoc = PlatformBody(Absent)
    /\ mresult = NoMatch
    /\ main_ds = NoTree
    /\ uri = NoUri
    /\ outcome = Idle
    /\ arena = <<>>
    /\ node_of = NoNodes
    /\ index_log = <<>>
    /\ match_log = <<>>
    /\ memo = EmptyCache
    /\ calls = <<>>
    /\ walk = NoWalk
    /\ dates = NoDates
    /\ index \in LoadCatalogs
    /\ rules \in ResolverRules
    /\ \E n \in 0..MaxDocs, env \in AddEnvironments, auto_add_lineage \in BOOLEAN,
          dry_run \in BOOLEAN :
          /\ config \in AddConfigs(auto_add_lineage)
          /\ cmd = StartCmd("add", n, env)
                     @@ [auto_add_lineage |-> auto_add_lineage, dry_run |-> dry_run,
                         seen |-> index]

\* index_datasets: one round of its for loop, which is one round of
\* load_datasets and, for a dataset it yields, the add
AddNext ==
    /\ cmd.status = "running"
    /\ cmd.name = "add"
    /\ Len(cmd.log) < cmd.total
    /\ \E tree \in LoadTrees, u \in Uris, bulk_ok \in BOOLEAN, fault \in AddFaults :
          \E e \in {load_dataset(cmd, index, config, rules, tree, u, bulk_ok)} :
          LET c == AfterSource(cmd, e) IN
          IF e.status = "dataset" /\ yield_checked(e.consistent)
          THEN LET r == index_dataset(cmd, index, CHOOSE d \in e.dataset : TRUE, fault) IN
               /\ cmd' = [c EXCEPT !.status = IF r.raised THEN "raised" ELSE @]
               /\ index' = r.index
               /\ index_log' = index_log \o r.ops
          ELSE /\ cmd' = c
               /\ UNCHANGED <<index, index_log>>
    /\ UNCHANGED <<resolver_vars, dates, walk>>

NextAdd == SkipSource \/ AddNext \/ LoadEnd

SpecAdd == InitAdd /\ [][NextAdd]_vars

----------------------------------------------------------------------------
(* Properties of add (SpecAdd) *)

\* the calls of index.datasets.add so far
AddCalls == SelectSeq(index_log, LAMBDA o : o.op = "add")

\* C23: index_datasets, when not in dry-run, calls the catalog's add once for
\* every dataset the batch resolved to, in order; a ValueError or
\* MissingRecordError of add for one dataset does not end the loop: only an
\* exception of the loader does, and add is called for every later dataset.
C23_AddEveryDataset ==
    (cmd.status # "idle" /\ cmd.name = "add" /\ ~cmd.dry_run) =>
        /\ Len(AddCalls) = Len(cmd.yielded)
        /\ \A k \in 1..Len(AddCalls) :
              /\ AddCalls[k].dataset = cmd.yielded[k]
              /\ AddCalls[k].with_lineage = cmd.auto_add_lineage
        /\ cmd.status = "raised" => cmd.log[Len(cmd.log)].status = "raised"
        /\ cmd.status = "done" => Len(cmd.log) = cmd.total

\* the add of the first dataset failed and the second dataset, another one,
\* was added to the catalog
C23_Witness ==
    /\ cmd.status = "done"
    /\ cmd.name = "add"
    /\ ~cmd.dry_run
    /\ Len(cmd.yielded) = 2
    /\ Len(AddCalls) = 2
    /\ AddCalls[1].exc = "MissingRecordError"
    /\ AddCalls[2].exc = "none"
    /\ cmd.yielded[1] # cmd.yielded[2]
    /\ cmd.yielded[2].doc.id \notin DOMAIN cmd.seen
    /\ cmd.yielded[2].doc.id \in DOMAIN index

----------------------------------------------------------------------------
(* The four commands that write to the catalog (SpecCommands) *)

\* one of add, update, archive, restore is run on a catalog of its own
InitCommands == InitAdd \/ InitUpdate \/ InitWalk \/ InitRestore

\* dataset add
AddCommand == cmd.status # "idle" /\ cmd.name = "add" /\ NextAdd

\* dataset update
UpdateCommand == cmd.status # "idle" /\ cmd.name = "update" /\ NextUpdate

\* dataset archive
ArchiveCommand == (cmd.status # "idle" => cmd.name = "archive") /\ NextWalk

\* dataset restore, on the catalogs where the walk of its derived set returns
RestoreCommand == cmd.status = "idle" /\ index \in RestoreCatalogs /\ NextRestore

NextCommands == AddCommand \/ UpdateCommand \/ ArchiveCommand \/ RestoreCommand

SpecCommands == InitCommands /\ [][NextCommands]_vars

\* C21: with --dry-run set, no step of add, update, archive or restore calls a
\* mutating catalog operation (add, update, archive_location, remove_location,
\* archive, restore), and none changes the catalog: the catalog after the
\* command is the catalog before it.
C21_DryRunNeverMutates ==
    [][(cmd'.status # "idle" /\ cmd'.dry_run) =>
           (index' = index /\ index_log' = index_log)]_vars

\* a dry run of add that ended after the loader yielded two datasets the
\* catalog does not hold: no catalog operation was made, the catalog is as it was
C21_Witness ==
    /\ cmd.status = "done"
    /\ cmd.name = "add"
    /\ cmd.dry_run
    /\ Len(cmd.yielded) = 2
    /\ \A k \in 1..2 : /\ cmd.yielded[k].doc.id # NoId
                       /\ cmd.yielded[k].doc.id \notin DOMAIN index
    /\ index_log = <<>>
    /\ index = cmd.seen

----------------------------------------------------------------------------
(* datacube/utils/dates.py: date_sequence with day units (SpecDates) *)

\* dates are days numbered from 0
MaxDate == 3

\* the largest count of a duration or of a step
MaxCount == 2

Dates == 0..MaxDate

\* the decimal digits of the counts
Digits == [n \in 0..MaxCount |-> <<"0", "1", "2", "3">>[n + 1]]

\* the strings '0d', '1d', ...: a count and the unit of days
DayStrings == {<<Digits[n], "d">> : n \in 0..MaxCount}

\* FREQS = {'y': YEARLY, 'm': MONTHLY, 'd': DAILY}, of which DAILY is modelled
FREQS == [u \in {"d"} |-> "DAILY"]

\* DURATIONS = {'y': 'years', 'm': 'months', 'd': 'days'}, of which days is modelled
DURATIONS == [u \in {"d"} |-> "days"]

\* int(s) of a one-digit string
int(s) == CHOOSE n \in DOMAIN Digits : Digits[n] = s

\* split_duration(duration): int(duration[:-1]), duration[-1:]
split_duration(duration) == <<int(duration[1]), duration[Len(duration)]>>

\* parse_interval(interval): count, FREQS[units]
parse_interval(interval) ==
    LET sd == split_duration(interval) IN <<sd[1], FREQS[sd[2]]>>

\* parse_duration(duration): relativedelta(**{DURATIONS[units]: count}), a
\* number of days
parse_duration(duration) ==
    LET sd == split_duration(duration) IN [unit |-> DURATIONS[sd[2]], count |-> sd[1]]

\* start_date + stats_duration
plus(date, delta) == date + delta.count

\* date_sequence(start, end, stats_duration, step_size) called: the rrule
\* starts at dtstart
DateCall(start_arg, end_arg, stats_duration, step_size) ==
    [status |-> "running", start |-> start_arg, end |-> end_arg,
     stats_duration |-> parse_duration(stats_duration),
     step_size |-> parse_interval(step_size)[1], freq |-> parse_interval(step_size)[2],
     start_date |-> start_arg, spans |-> <<>>]

\* the steps of an rrule are at least one day long
InitDates ==
    /\ ResolverIdle
    /\ index \in {c \in Catalogs : DOMAIN c = {}}
    /\ index_log = <<>>
    /\ walk = NoWalk
    /\ cmd = NoCmd
    /\ \E start_arg \in Dates, end_arg \in Dates, stats_duration \in DayStrings,
          step_size \in DayStrings :
          /\ parse_interval(step_size)[1] >= 1
          /\ dates = DateCall(start_arg, end_arg, stats_duration, step_size)

\* if end_date <= end: yield start_date, start_date + stats_duration
yield_span(d) ==
    LET end_date == plus(d.start_date, d.stats_duration) IN
    IF end_date <= d.end
    THEN Append(d.spans, <<d.start_date, plus(d.start_date, d.stats_duration)>>)
    ELSE d.spans

\* one round of the for loop: rrule(freq, interval=step_size, dtstart=start,
\* until=end) gives its next date, which is not after until
DateNext ==
    /\ dates.status = "running"
    /\ dates.start_date <= dates.end
    /\ dates' = [dates EXCEPT !.spans = yield_span(dates),
                              !.start_date = @ + dates.step_size]
    /\ UNCHANGED <<resolver_vars, index, index_log, walk, cmd>>

\* the rrule is exhausted
DateEnd ==
    /\ dates.status = "running"
    /\ dates.start_date > dates.end
    /\ dates' = [dates EXCEPT !.status = "done"]
    /\ UNCHANGED <<resolver_vars, index, index_log, walk, cmd>>

NextDates == DateNext \/ DateEnd

SpecDates == InitDates /\ [][NextDates]_vars

\* the start dates start + k*step that are not after end, in increasing order
StartDates ==
    LET n == IF dates.start > dates.end THEN 0
             ELSE ((dates.end - dates.start) \div dates.step_size) + 1
    IN [k \in 1..n |-> dates.start + (k - 1) * dates.step_size]

\* C24: date_sequence yields one span (s, s + duration) for each start date
\* s = start + k*step with s <= end, in increasing order of s; the end of the
\* last span may be past the end date: a start date s <= end is yielded even
\* when s + duration > end.
C24_OneSpanPerStartDate ==
    dates.status = "done" =>
        dates.spans = [k \in 1..Len(StartDates) |->
                          <<StartDates[k], StartDates[k] + dates.stats_duration.count>>]

====
